---- MODULE Spec2Model ----
(***************************************************************************)
(* Blocking TLS connection driver (src/src/blocking.rs): TlsConnection     *)
(* with new / open / write / read / close.  Every loop of the source is    *)
(* modelled one iteration per step; the collaborators the driver calls     *)
(* (handshake state machine, record codec, transport) are modelled by      *)
(* their interface: each call either fails or succeeds with a value the    *)
(* environment chooses.                                                    *)
(***************************************************************************)
EXTENDS Integers, Sequences, FiniteSets, TLC

\* const TLS_RECORD_OVERHEAD: usize = 128;
TLS_RECORD_OVERHEAD == 128

\* Bounds of the exploration.
MaxChunk == 2      \* record_buf.len() ranges over 129 .. 128 + MaxChunk
MaxPayload == 3    \* longest slice handed to write
MaxBuf == 2        \* longest caller buffer handed to read
MaxData == 2       \* longest ApplicationData message the peer sends
MaxQueue == 2      \* most messages one decrypted record yields
MaxRecs == 2       \* most records the transport delivers to one read call
MaxCalls == 3      \* open/write/read/close calls per behaviour

\* Payload bytes; 0 is kept for the initial content of a caller's read buffer.
Bytes == {1, 2}

\* usize arithmetic: the width of the target (16 bits here) and wrap-around.
UsizeModulus == 2 ^ 16

Min(a, b) == IF a < b THEN a ELSE b

SeqsUpTo(S, n) == UNION {[1..k -> S] : k \in 0..n}

Capacities == (TLS_RECORD_OVERHEAD + 1)..(TLS_RECORD_OVERHEAD + MaxChunk)
Payloads == SeqsUpTo(Bytes, MaxPayload)
ReadBuffers == {[i \in 1..n |-> 0] : n \in 0..MaxBuf}

(***************************************************************************)
(* Records and messages                                                    *)
(***************************************************************************)
\* ClientRecord::ApplicationData(&buf[..])
ClientApplicationData(data) ==
    [type |-> "ApplicationData", data |-> data, level |-> "None",
     description |-> "None", encrypted |-> TRUE]

\* ClientRecord::Alert(Alert::new(level, description), encrypted)
ClientAlert(level, description, encrypted) ==
    [type |-> "Alert", data |-> <<>>, level |-> level,
     description |-> description, encrypted |-> encrypted]

\* ServerRecord variants that read dispatches on.
ServerApplicationData(data) ==
    [type |-> "ApplicationData", data |-> data, description |-> "None"]
ServerAlert(description) ==
    [type |-> "Alert", data |-> <<>>, description |-> description]
ServerChangeCipherSpec ==
    [type |-> "ChangeCipherSpec", data |-> <<>>, description |-> "None"]
ServerNewSessionTicket ==
    [type |-> "NewSessionTicket", data |-> <<>>, description |-> "None"]
ServerOtherHandshake ==
    [type |-> "OtherHandshake", data |-> <<>>, description |-> "None"]

AlertDescriptions == {"CloseNotify", "HandshakeFailure"}

\* The plaintexts the peer sends: n consecutive byte values starting at b.
PeerData == {[i \in 1..n |-> b + i - 1] : n \in 0..MaxData, b \in Bytes}

ServerMessages ==
    {ServerApplicationData(d) : d \in PeerData}
    \cup {ServerAlert(a) : a \in AlertDescriptions}
    \cup {ServerChangeCipherSpec, ServerNewSessionTicket, ServerOtherHandshake}

\* No message: the value of `dequeued` before the first dequeue from a record.
NoMessage == [type |-> "None", data |-> <<>>, description |-> "None"]

\* How many messages decrypt_record can leave in the queue for one record.
QueueLengths == 0..MaxQueue

\* Outcomes of the collaborators.
HandshakeStates ==
    {"ClientHello", "ServerHello", "ServerVerify", "ClientFinished", "ApplicationData"}
HandshakeOutcomes == HandshakeStates \cup {"HandshakeError"}
EncodeOutcomes == {"Ok", "EncodeError"}
TransportOutcomes == {"Ok", "IoError"}
DecodeOutcomes == {"Ok", "IoError", "CryptoError"}

(***************************************************************************)
(* Results of a call                                                       *)
(***************************************************************************)
Pending(op) == [op |-> op, status |-> "None", val |-> 0, err |-> "None"]
Ok(op, n) == [op |-> op, status |-> "Ok", val |-> n, err |-> "None"]
Err(op, e) == [op |-> op, status |-> "Err", val |-> 0, err |-> e]
Panic(op) == [op |-> op, status |-> "Panic", val |-> 0, err |-> "None"]

\* KeySchedule::new()
NewKeySchedule == [keys |-> "fresh", write_counter |-> 0, read_counter |-> 0]

\* key_schedule.increment_write_counter()
IncrementWriteCounter(ks) == [ks EXCEPT !.write_counter = @ + 1]

\* decrypt_record advances the read direction for a record it accepted.
IncrementReadCounter(ks) == [ks EXCEPT !.read_counter = @ + 1]

VARIABLES
    pc,               \* position of the caller: idle, open, write, read, drain, closed, panicked
    opened,           \* self.opened
    key_schedule,     \* self.key_schedule
    cap,              \* self.record_buf.len()
    overflow_checks,  \* whether the build traps on usize overflow or wraps
    state,            \* open: the handshake state
    buf,              \* write: the payload; read: the caller's buffer
    wp,               \* write: offset of the next chunk
    remaining,        \* write: bytes left to send; read: space left
    records,          \* read: number of messages left in the queue decrypt_record filled;
                      \* the driver learns each message only when it dequeues it
    dequeued,         \* read: the message last dequeued from the current record
    io_log,           \* this call: records given to encode_record / delegate.write
    rx_calls,         \* this call: number of decode_record_blocking calls
    earlier,          \* this call: what was dequeued before `dequeued`:
                      \* "Nothing", only "Tickets", or "Mixed"
    result,           \* the running call, or the value the last call returned
    returned,         \* close handed (Context, Transport) back
    calls,            \* number of calls made so far
    delivered,        \* records of this connection the transport accepted from write/close
    history           \* what has happened to this connection, for the properties:
                      \* an open returned an error, a read returned connection-closed,
                      \* and the write counter at the start of the call

vars == <<pc, opened, key_schedule, cap, overflow_checks, state, buf, wp, remaining,
          records, dequeued, io_log, rx_calls, earlier, result, returned,
          calls, delivered, history>>

\* Nothing has happened yet to a connection that new has just built.
NewHistory == [open_failed |-> FALSE, peer_closed |-> FALSE, counter_at_call |-> 0]

\* TlsConnection::new
Init ==
    /\ pc = "idle"
    /\ opened = FALSE
    /\ key_schedule = NewKeySchedule
    /\ cap \in Capacities
    /\ overflow_checks \in BOOLEAN
    /\ state = "ClientHello"
    /\ buf = <<>>
    /\ wp = 0
    /\ remaining = 0
    /\ records = 0
    /\ dequeued = NoMessage
    /\ io_log = <<>>
    /\ rx_calls = 0
    /\ earlier = "Nothing"
    /\ result = Pending("new")
    /\ returned = FALSE
    /\ calls = 0
    /\ delivered = 0
    /\ history = NewHistory

\* A call starts with fresh locals and empty logs.
StartCall ==
    /\ pc = "idle"
    /\ calls < MaxCalls
    /\ calls' = calls + 1
    /\ state' = "ClientHello"
    /\ wp' = 0
    /\ rx_calls' = 0
    /\ earlier' = "Nothing"
    /\ records' = 0
    /\ dequeued' = NoMessage
    /\ history' = [history EXCEPT !.counter_at_call = key_schedule.write_counter]

(***************************************************************************)
(* open                                                                    *)
(***************************************************************************)
OpenCall ==
    /\ StartCall
    /\ pc' = "open"
    /\ result' = Pending("open")
    /\ buf' = <<>>
    /\ remaining' = 0
    /\ io_log' = <<>>
    /\ UNCHANGED <<opened, key_schedule, cap, overflow_checks, returned, delivered>>

\* The key schedule after a transition of the handshake to state s.
HandshakeKeys(ks, s) ==
    [ks EXCEPT !.keys = IF s = "ApplicationData" THEN "traffic" ELSE "handshake"]

\* Mutant: the loop also stops one state before the terminal one.
EstablishedEarly(s) == s \in {"ClientFinished", "ApplicationData"}

\* if let State::ApplicationData = state
Established(s) == s = "ApplicationData"

\* One iteration of the loop of open: state.process_blocking(..)?
OpenStep ==
    /\ pc = "open"
    /\ \E next_state \in HandshakeOutcomes :
         IF next_state = "HandshakeError"
         THEN /\ result' = Err("open", next_state)
              /\ pc' = "idle"
              /\ history' = [history EXCEPT !.open_failed = TRUE]
              /\ UNCHANGED <<state, opened, key_schedule>>
         ELSE /\ state' = next_state
              /\ key_schedule' = HandshakeKeys(key_schedule, next_state)
              /\ UNCHANGED history
              /\ IF Established(next_state)
                 THEN /\ opened' = TRUE
                      /\ result' = Ok("open", 0)
                      /\ pc' = "idle"
                 ELSE UNCHANGED <<opened, result, pc>>
    /\ UNCHANGED <<cap, overflow_checks, buf, wp, remaining, records, dequeued, io_log,
                   rx_calls, earlier, returned, calls, delivered>>

(***************************************************************************)
(* write                                                                   *)
(***************************************************************************)
\* let max_block_size = self.record_buf.len() - TLS_RECORD_OVERHEAD;
MaxBlockSize(c) == c - TLS_RECORD_OVERHEAD

\* Mutant: the chunk is one byte short of the block size, so it can be empty.
ToWriteNoProgress(rem, max_block_size) == Min(rem, max_block_size - 1)

\* let to_write = core::cmp::min(remaining, max_block_size);
ToWrite(rem, max_block_size) == Min(rem, max_block_size)

\* &buf[wp..to_write] panics when the range is not within the slice.
SliceOutOfRange(b, from, to) == from > to \/ to > Len(b)

\* Mutant: the slice stops one byte early.
SliceOffByOne(b, from, to) == SubSeq(b, from + 1, to - 1)

\* &buf[wp..to_write]: the bytes at offsets wp .. to_write - 1.
Slice(b, from, to) == SubSeq(b, from + 1, to)

WriteCall ==
    /\ StartCall
    /\ \E payload \in Payloads :
         IF opened
         THEN /\ buf' = payload
              /\ remaining' = Len(payload)
              /\ pc' = "write"
              /\ result' = Pending("write")
         ELSE /\ result' = Err("write", "MissingHandshake")
              /\ buf' = payload
              /\ remaining' = 0
              /\ UNCHANGED pc
    /\ io_log' = <<>>
    /\ UNCHANGED <<opened, key_schedule, cap, overflow_checks, returned, delivered>>

\* Mutant: the counter is incremented before the transport has taken the record.
WriteLoopCountsFirst ==
    /\ pc = "write"
    /\ remaining > 0
    /\ LET max_block_size == MaxBlockSize(cap)
           to_write == ToWrite(remaining, max_block_size)
       IN IF SliceOutOfRange(buf, wp, to_write)
          THEN /\ result' = Panic("write")
               /\ pc' = "panicked"
               /\ UNCHANGED <<key_schedule, wp, remaining, io_log, delivered>>
          ELSE \E enc \in EncodeOutcomes, sent \in TransportOutcomes :
                 LET record == ClientApplicationData(Slice(buf, wp, to_write)) IN
                 IF enc # "Ok"
                 THEN /\ io_log' = Append(io_log, [record |-> record, encode |-> enc, write |-> "None"])
                      /\ result' = Err("write", enc)
                      /\ pc' = "idle"
                      /\ UNCHANGED <<key_schedule, wp, remaining, delivered>>
                 ELSE /\ io_log' = Append(io_log, [record |-> record, encode |-> enc, write |-> sent])
                      /\ key_schedule' = IncrementWriteCounter(key_schedule)
                      /\ IF sent # "Ok"
                         THEN /\ result' = Err("write", sent)
                              /\ pc' = "idle"
                              /\ UNCHANGED <<wp, remaining, delivered>>
                         ELSE /\ delivered' = delivered + 1
                              /\ wp' = wp + to_write
                              /\ remaining' = remaining - to_write
                              /\ UNCHANGED <<result, pc>>
    /\ UNCHANGED <<opened, cap, overflow_checks, state, buf, records, dequeued, rx_calls,
                   earlier, returned, calls, history>>

\* One iteration of `while remaining > 0`.
WriteLoop ==
    /\ pc = "write"
    /\ remaining > 0
    /\ LET max_block_size == MaxBlockSize(cap)
           to_write == ToWrite(remaining, max_block_size)
       IN IF SliceOutOfRange(buf, wp, to_write)
          THEN /\ result' = Panic("write")
               /\ pc' = "panicked"
               /\ UNCHANGED <<key_schedule, wp, remaining, io_log, delivered>>
          ELSE \E enc \in EncodeOutcomes, sent \in TransportOutcomes :
                 LET record == ClientApplicationData(Slice(buf, wp, to_write)) IN
                 IF enc # "Ok"
                 THEN /\ io_log' = Append(io_log, [record |-> record, encode |-> enc, write |-> "None"])
                      /\ result' = Err("write", enc)
                      /\ pc' = "idle"
                      /\ UNCHANGED <<key_schedule, wp, remaining, delivered>>
                 ELSE /\ io_log' = Append(io_log, [record |-> record, encode |-> enc, write |-> sent])
                      /\ IF sent # "Ok"
                         THEN /\ result' = Err("write", sent)
                              /\ pc' = "idle"
                              /\ UNCHANGED <<key_schedule, wp, remaining, delivered>>
                         ELSE /\ delivered' = delivered + 1
                              /\ key_schedule' = IncrementWriteCounter(key_schedule)
                              /\ wp' = wp + to_write
                              /\ remaining' = remaining - to_write
                              /\ UNCHANGED <<result, pc>>
    /\ UNCHANGED <<opened, cap, overflow_checks, state, buf, records, dequeued, rx_calls,
                   earlier, returned, calls, history>>

\* Ok(buf.len())
WriteValue(b) == Len(b)

WriteReturn ==
    /\ pc = "write"
    /\ remaining = 0
    /\ result' = Ok("write", WriteValue(buf))
    /\ pc' = "idle"
    /\ UNCHANGED <<opened, key_schedule, cap, overflow_checks, state, buf, wp, remaining,
                   records, dequeued, io_log, rx_calls, earlier, returned, calls,
                   delivered, history>>

(***************************************************************************)
(* read                                                                    *)
(***************************************************************************)
\* usize subtraction: traps when overflow checks are on, wraps otherwise.
SubOverflows(a, b) == a < b
WrappingSub(a, b) == (a - b + UsizeModulus) % UsizeModulus

\* Mutant: a message one byte longer than the buffer is let through.
TooSmallOffByOne(b, data) == Len(b) + 1 < Len(data)

\* if buf.len() < data.len()
TooSmall(b, data) == Len(b) < Len(data)

\* buf[..to_copy].copy_from_slice(&data.as_slice()[..to_copy])
CopyFromSlice(b, data, to_copy) ==
    [i \in 1..Len(b) |-> IF i <= to_copy THEN data[i] ELSE b[i]]

\* ServerRecord::ApplicationData(ApplicationData { header: _, data }) => ..
DispatchApplicationData(data, b, rem, checks) ==
    IF TooSmall(b, data)
    THEN [status |-> "Err", err |-> "EncodeError", buf |-> b, remaining |-> rem]
    ELSE LET to_copy == Min(Len(data), Len(b))
             copied == CopyFromSlice(b, data, to_copy)
         IN IF SubOverflows(rem, to_copy) /\ checks
            THEN [status |-> "Panic", err |-> "None", buf |-> copied, remaining |-> rem]
            ELSE [status |-> "Ok", err |-> "None", buf |-> copied,
                  remaining |-> WrappingSub(rem, to_copy)]

\* Mutant: every alert is reported as the peer closing.
AlertErrorAlwaysClosed(description) == "ConnectionClosed"

\* ServerRecord::Alert(alert) => ..
AlertError(description) ==
    IF description = "CloseNotify" THEN "ConnectionClosed" ELSE "InternalError"

DispatchAlert(description, b, rem) ==
    [status |-> "Err", err |-> AlertError(description), buf |-> b, remaining |-> rem]

\* Mutant: an unexpected ChangeCipherSpec is skipped.
DispatchChangeCipherSpecIgnored(b, rem) ==
    [status |-> "Ok", err |-> "None", buf |-> b, remaining |-> rem]

\* ServerRecord::ChangeCipherSpec(_) => Err(TlsError::InternalError)
DispatchChangeCipherSpec(b, rem) ==
    [status |-> "Err", err |-> "InternalError", buf |-> b, remaining |-> rem]

\* Mutant: a ticket is rejected like any unexpected handshake message.
DispatchNewSessionTicketRejected(b, rem) ==
    [status |-> "Err", err |-> "InternalError", buf |-> b, remaining |-> rem]

\* ServerRecord::Handshake(ServerHandshake::NewSessionTicket(_)) => Ok(())
DispatchNewSessionTicket(b, rem) ==
    [status |-> "Ok", err |-> "None", buf |-> b, remaining |-> rem]

\* _ => unimplemented!()
DispatchOther(b, rem) ==
    [status |-> "Panic", err |-> "None", buf |-> b, remaining |-> rem]

\* match record { .. }
Dispatch(record, b, rem, checks) ==
    CASE record.type = "ApplicationData" -> DispatchApplicationData(record.data, b, rem, checks)
      [] record.type = "Alert" -> DispatchAlert(record.description, b, rem)
      [] record.type = "ChangeCipherSpec" -> DispatchChangeCipherSpec(b, rem)
      [] record.type = "NewSessionTicket" -> DispatchNewSessionTicket(b, rem)
      [] OTHER -> DispatchOther(b, rem)

\* Mutant: read does not look at self.opened.
ReadCallUnchecked ==
    /\ StartCall
    /\ \E out \in ReadBuffers :
         /\ buf' = out
         /\ remaining' = Len(out)
         /\ pc' = "read"
         /\ result' = Pending("read")
    /\ io_log' = <<>>
    /\ UNCHANGED <<opened, key_schedule, cap, overflow_checks, returned, delivered>>

ReadCall ==
    /\ StartCall
    /\ \E out \in ReadBuffers :
         IF opened
         THEN /\ buf' = out
              /\ remaining' = Len(out)
              /\ pc' = "read"
              /\ result' = Pending("read")
         ELSE /\ result' = Err("read", "MissingHandshake")
              /\ buf' = out
              /\ remaining' = 0
              /\ UNCHANGED pc
    /\ io_log' = <<>>
    /\ UNCHANGED <<opened, key_schedule, cap, overflow_checks, returned, delivered>>

\* Mutant: the outer loop goes on while the caller's buffer has space left.
WhileSpaceLeft(rem, b) == rem > 0

\* while remaining == buf.len()
WhileNothingCopied(rem, b) == rem = Len(b)

\* The summary of the messages dequeued so far, once message m is among them.
Absorb(e, m) ==
    IF m = NoMessage THEN e
    ELSE IF m.type = "NewSessionTicket" /\ e # "Mixed" THEN "Tickets"
    ELSE "Mixed"

\* One iteration of the outer loop: decode_record_blocking(..)? then decrypt_record(..)?
ReadDecode ==
    /\ pc = "read"
    /\ WhileNothingCopied(remaining, buf)
    /\ rx_calls < MaxRecs
    /\ rx_calls' = rx_calls + 1
    /\ \E outcome \in DecodeOutcomes, queued \in QueueLengths :
         IF outcome # "Ok"
         THEN /\ result' = Err("read", outcome)
              /\ pc' = "idle"
              /\ UNCHANGED <<records, key_schedule>>
         ELSE /\ records' = queued
              /\ key_schedule' = IncrementReadCounter(key_schedule)
              /\ pc' = "drain"
              /\ UNCHANGED result
    /\ dequeued' = NoMessage
    /\ earlier' = Absorb(earlier, dequeued)
    /\ UNCHANGED <<opened, cap, overflow_checks, state, buf, wp, remaining, io_log,
                   returned, calls, delivered, history>>

\* One iteration of `while let Some(record) = records.dequeue()`.
ReadDequeue ==
    /\ pc = "drain"
    /\ records > 0
    /\ \E record \in ServerMessages :
       LET d == Dispatch(record, buf, remaining, overflow_checks)
       IN /\ records' = records - 1
          /\ dequeued' = record
          /\ earlier' = Absorb(earlier, dequeued)
          /\ buf' = d.buf
          /\ remaining' = d.remaining
          /\ IF d.status = "Ok"
             THEN UNCHANGED <<result, pc>>
             ELSE IF d.status = "Err"
                  THEN /\ result' = Err("read", d.err)
                       /\ pc' = "idle"
                  ELSE /\ result' = Panic("read")
                       /\ pc' = "panicked"
          /\ history' = IF d.status = "Err" /\ d.err = "ConnectionClosed"
                         THEN [history EXCEPT !.peer_closed = TRUE]
                         ELSE history
    /\ UNCHANGED <<opened, key_schedule, cap, overflow_checks, state, wp, io_log, rx_calls,
                   returned, calls, delivered>>

\* records.dequeue() returned None: back to the condition of the outer loop.
ReadDrained ==
    /\ pc = "drain"
    /\ records = 0
    /\ pc' = "read"
    /\ UNCHANGED <<opened, key_schedule, cap, overflow_checks, state, buf, wp, remaining,
                   records, dequeued, io_log, rx_calls, earlier, result, returned,
                   calls, delivered, history>>

\* Ok(buf.len() - remaining)
ReadReturn ==
    /\ pc = "read"
    /\ ~WhileNothingCopied(remaining, buf)
    /\ IF SubOverflows(Len(buf), remaining) /\ overflow_checks
       THEN /\ result' = Panic("read")
            /\ pc' = "panicked"
       ELSE /\ result' = Ok("read", WrappingSub(Len(buf), remaining))
            /\ pc' = "idle"
    /\ UNCHANGED <<opened, key_schedule, cap, overflow_checks, state, buf, wp, remaining,
                   records, dequeued, io_log, rx_calls, earlier, returned, calls,
                   delivered, history>>

(***************************************************************************)
(* close and a new connection over the recovered resources                 *)
(***************************************************************************)
\* Mutant: the closing alert is always flagged encrypted.
CloseRecordEncrypted(o) == ClientAlert("Warning", "CloseNotify", TRUE)

\* ClientRecord::Alert(Alert::new(AlertLevel::Warning, AlertDescription::CloseNotify), ..)
CloseRecord(o) == ClientAlert("Warning", "CloseNotify", o)

\* Mutant: close counts the alert before the transport has taken it.
CloseCountsFirst ==
    /\ StartCall
    /\ pc' = "closed"
    /\ buf' = <<>>
    /\ remaining' = 0
    /\ \E enc \in EncodeOutcomes, sent \in TransportOutcomes :
         LET record == CloseRecord(opened) IN
         IF enc # "Ok"
         THEN /\ io_log' = <<[record |-> record, encode |-> enc, write |-> "None"]>>
              /\ result' = Err("close", enc)
              /\ returned' = FALSE
              /\ UNCHANGED <<key_schedule, delivered>>
         ELSE /\ io_log' = <<[record |-> record, encode |-> enc, write |-> sent]>>
              /\ key_schedule' = IncrementWriteCounter(key_schedule)
              /\ IF sent # "Ok"
                 THEN /\ result' = Err("close", sent)
                      /\ returned' = FALSE
                      /\ UNCHANGED delivered
                 ELSE /\ delivered' = delivered + 1
                      /\ result' = Ok("close", 0)
                      /\ returned' = TRUE
    /\ UNCHANGED <<opened, cap, overflow_checks>>

Close ==
    /\ StartCall
    /\ pc' = "closed"
    /\ buf' = <<>>
    /\ remaining' = 0
    /\ \E enc \in EncodeOutcomes, sent \in TransportOutcomes :
         LET record == CloseRecord(opened) IN
         IF enc # "Ok"
         THEN /\ io_log' = <<[record |-> record, encode |-> enc, write |-> "None"]>>
              /\ result' = Err("close", enc)
              /\ returned' = FALSE
              /\ UNCHANGED <<key_schedule, delivered>>
         ELSE /\ io_log' = <<[record |-> record, encode |-> enc, write |-> sent]>>
              /\ IF sent # "Ok"
                 THEN /\ result' = Err("close", sent)
                      /\ returned' = FALSE
                      /\ UNCHANGED <<key_schedule, delivered>>
                 ELSE /\ key_schedule' = IncrementWriteCounter(key_schedule)
                      /\ delivered' = delivered + 1
                      /\ result' = Ok("close", 0)
                      /\ returned' = TRUE
    /\ UNCHANGED <<opened, cap, overflow_checks>>

\* Mutant: the new connection inherits the opened flag of the closed one.
NewStale ==
    /\ pc = "closed"
    /\ returned
    /\ pc' = "idle"
    /\ key_schedule' = NewKeySchedule
    /\ returned' = FALSE
    /\ delivered' = 0
    /\ result' = Pending("new")
    /\ io_log' = <<>>
    /\ history' = NewHistory
    /\ UNCHANGED <<opened, cap, overflow_checks, state, buf, wp, remaining, records, dequeued,
                   rx_calls, earlier, calls>>

\* Mutant: the new connection goes on with the key schedule of the closed one.
NewKeepsKeys ==
    /\ pc = "closed"
    /\ returned
    /\ pc' = "idle"
    /\ opened' = FALSE
    /\ returned' = FALSE
    /\ delivered' = 0
    /\ result' = Pending("new")
    /\ io_log' = <<>>
    /\ history' = NewHistory
    /\ UNCHANGED <<key_schedule, cap, overflow_checks, state, buf, wp, remaining, records,
                   dequeued, rx_calls, earlier, calls>>

\* TlsConnection::new over the Context and Transport a close returned.
New ==
    /\ pc = "closed"
    /\ returned
    /\ pc' = "idle"
    /\ opened' = FALSE
    /\ key_schedule' = NewKeySchedule
    /\ returned' = FALSE
    /\ delivered' = 0
    /\ result' = Pending("new")
    /\ io_log' = <<>>
    /\ history' = NewHistory
    /\ UNCHANGED <<cap, overflow_checks, state, buf, wp, remaining, records, dequeued,
                   rx_calls, earlier, calls>>

Next ==
    \/ OpenCall
    \/ OpenStep
    \/ WriteCall
    \/ WriteLoop
    \/ WriteReturn
    \/ ReadCall
    \/ ReadDecode
    \/ ReadDequeue
    \/ ReadDrained
    \/ ReadReturn
    \/ Close
    \/ New

Spec == Init /\ [][Next]_vars

TypeOK ==
    /\ pc \in {"idle", "open", "write", "read", "drain", "closed", "panicked"}
    /\ opened \in BOOLEAN
    /\ cap \in Capacities
    /\ state \in HandshakeStates
    /\ wp \in 0..MaxPayload
    /\ remaining \in 0..(UsizeModulus - 1)
    /\ calls \in 0..MaxCalls

(***************************************************************************)
(* Properties                                                              *)
(***************************************************************************)
Ceil(a, b) == (a + b - 1) \div b

RECURSIVE Plaintext(_)
\* The plaintext of the records of a log, concatenated in transmission order.
Plaintext(log) ==
    IF log = <<>> THEN <<>> ELSE log[1].record.data \o Plaintext(Tail(log))

WriteSucceeded == result.op = "write" /\ result.status = "Ok"

\* C1: a successful write(P) hands the transport exactly
\* ceil(len(P) / (C - 128)) application-data records, each of at most C - 128
\* bytes, whose plaintext concatenated in transmission order equals P.
C1_ChunksCoverPayload ==
    WriteSucceeded =>
        /\ Len(io_log) = Ceil(Len(buf), cap - TLS_RECORD_OVERHEAD)
        /\ \A i \in 1..Len(io_log) :
             /\ io_log[i].write = "Ok"
             /\ io_log[i].record.type = "ApplicationData"
             /\ Len(io_log[i].record.data) <= cap - TLS_RECORD_OVERHEAD
        /\ Plaintext(io_log) = buf

\* C2: every successful write returns the length of its input, and a
\* non-empty payload that fits one chunk goes out as exactly one record whose
\* plaintext is the payload.
C2_SingleChunkWrite ==
    WriteSucceeded =>
        /\ result.val = Len(buf)
        /\ (0 < Len(buf) /\ Len(buf) <= cap - TLS_RECORD_OVERHEAD) =>
             io_log = <<[record |-> ClientApplicationData(buf), encode |-> "Ok", write |-> "Ok"]>>

C2_Witness ==
    /\ WriteSucceeded
    /\ Len(buf) = 2
    /\ cap = TLS_RECORD_OVERHEAD + 2
    /\ result.val = 2
    /\ Len(io_log) = 1

\* C3: a write or read called while opened is false returns the
\* handshake-missing error at once, gives nothing to the codec or the
\* transport, and leaves the key schedule and the opened flag as they were.
C3_RejectedBeforeHandshake ==
    [][(pc = "idle" /\ calls' = calls + 1 /\ result'.op \in {"write", "read"} /\ ~opened) =>
          /\ result' = Err(result'.op, "MissingHandshake")
          /\ pc' = "idle"
          /\ io_log' = <<>>
          /\ rx_calls' = 0
          /\ delivered' = delivered
          /\ key_schedule' = key_schedule
          /\ opened' = opened]_vars

C3_Witness ==
    /\ result = Err("read", "MissingHandshake")
    /\ ~opened
    /\ Len(buf) > 0
    /\ rx_calls = 0

OpenReturns == pc = "open" /\ pc' # "open"

\* C4 as stated: every open that returns either succeeds with opened true in
\* the terminal state, or fails with opened false afterwards.
C4_OpenErrorLeavesClosed ==
    [][OpenReturns =>
          \/ result'.status = "Ok" /\ opened' /\ state' = "ApplicationData"
          \/ result'.status = "Err" /\ ~opened']_vars

\* C4 amended: every open that returns either succeeds with opened true in
\* the terminal state, or fails with opened left as it was before the call
\* (false unless an earlier open of this connection succeeded).
C4_OpenErrorLeavesFlag ==
    [][OpenReturns =>
          \/ result'.status = "Ok" /\ opened' /\ state' = "ApplicationData"
          \/ result'.status = "Err" /\ opened' = opened]_vars

C4_Witness ==
    /\ result = Err("open", "HandshakeError")
    /\ opened
    /\ pc = "idle"

\* C5: opened is false after new, turns true only when an open drives the
\* handshake to its terminal state, and then stays true through every open,
\* write and read until close consumes the connection.
C5_OpenedLifecycle ==
    /\ ~opened
    /\ [][/\ (opened' # opened) =>
               \/ ~opened /\ pc = "open" /\ state' = "ApplicationData" /\ result' = Ok("open", 0)
               \/ opened /\ pc = "closed"
          /\ (result'.op = "new") => ~opened']_vars

C5_Witness ==
    /\ opened
    /\ result.op = "write"
    /\ result.status = "Err"
    /\ calls = 3

\* C6: the write counter equals the number of records of this connection
\* that the transport accepted from write and close.
C6_CounterCountsDelivered ==
    key_schedule.write_counter = delivered

C6_Witness ==
    /\ result.op = "write"
    /\ result.status = "Err"
    /\ Len(io_log) = 2
    /\ io_log[2].write = "IoError"
    /\ key_schedule.write_counter = 1

Dequeues == pc = "drain" /\ records' = records - 1

\* C7: when read dequeues an ApplicationData message longer than the
\* caller's buffer it returns the capacity error and the buffer is untouched.
C7_OversizeRejected ==
    [][(/\ Dequeues
        /\ dequeued'.type = "ApplicationData"
        /\ Len(dequeued'.data) > Len(buf)) =>
          /\ result' = Err("read", "EncodeError")
          /\ pc' = "idle"
          /\ buf' = buf]_vars

C7_Witness ==
    /\ result = Err("read", "EncodeError")
    /\ dequeued.type = "ApplicationData"
    /\ Len(buf) >= 1
    /\ Len(dequeued.data) > Len(buf)

\* C8: a dequeued close_notify alert yields connection-closed, any other
\* alert and a ChangeCipherSpec yield the internal error, and read returns
\* at once: nothing more is dequeued or decoded.
C8_ControlMessageErrors ==
    [][(Dequeues /\ dequeued'.type \in {"Alert", "ChangeCipherSpec"}) =>
          /\ result' = Err("read",
                           IF dequeued'.type = "Alert" /\ dequeued'.description = "CloseNotify"
                           THEN "ConnectionClosed" ELSE "InternalError")
          /\ pc' = "idle"
          /\ records' = records - 1
          /\ rx_calls' = rx_calls
          /\ buf' = buf]_vars

C8_Witness ==
    /\ result = Err("read", "ConnectionClosed")
    /\ dequeued = ServerAlert("CloseNotify")
    /\ records > 0

\* The call has dequeued one or more tickets and then one non-empty
\* ApplicationData message that fits the caller's buffer, and nothing else.
TicketsThenData ==
    /\ result.op = "read"
    /\ earlier = "Tickets"
    /\ dequeued.type = "ApplicationData"
    /\ 0 < Len(dequeued.data)
    /\ Len(dequeued.data) <= Len(buf)

\* C9: a ticket is consumed without error and without touching the buffer;
\* while only tickets have been dequeued read goes on to the next record; and
\* tickets followed by a fitting ApplicationData message give a successful
\* read of exactly that message's bytes.
C9_TicketsAreSkipped ==
    /\ (result.op = "read" /\ dequeued.type = "NewSessionTicket") =>
          result.status \in {"None", "Ok"}
    /\ (result.op = "read" /\ Absorb(earlier, dequeued) = "Tickets") =>
          /\ result.status = "None" \/ (result.status = "Err" /\ dequeued = NoMessage)
          /\ remaining = Len(buf)
          /\ buf \in ReadBuffers
    /\ TicketsThenData =>
          /\ result.status \in {"None", "Ok"}
          /\ SubSeq(buf, 1, Len(dequeued.data)) = dequeued.data
          /\ \A i \in (Len(dequeued.data) + 1)..Len(buf) : buf[i] = 0
          /\ pc = "idle" => result = Ok("read", Len(dequeued.data))

C9_Witness ==
    /\ TicketsThenData
    /\ result = Ok("read", 2)
    /\ rx_calls = 2

\* C10: close encodes a warning-level close_notify alert whose encrypted flag
\* is the value of opened at the call, and when encode and transport write
\* both succeed it returns the Context and the Transport.
C10_CloseAlert ==
    [][(pc = "idle" /\ result'.op = "close" /\ calls' = calls + 1) =>
          /\ Len(io_log') = 1
          /\ io_log'[1].record = ClientAlert("Warning", "CloseNotify", opened)
          /\ (io_log'[1].encode = "Ok" /\ io_log'[1].write = "Ok") =>
                (result' = Ok("close", 0) /\ returned')
          /\ pc' = "closed"]_vars

C10_Witness ==
    /\ result = Ok("close", 0)
    /\ returned
    /\ opened
    /\ io_log[1].record.encrypted

Closes == pc = "idle" /\ result'.op = "close" /\ calls' = calls + 1

\* C11: when the encode or the transport write of the closing alert fails,
\* close returns that error, the write counter stays, nothing is handed back;
\* a failed encode is followed by no transport write, and close never gives
\* the transport more than one record.
C11_CloseFailure ==
    [][Closes =>
          /\ Len(io_log') = 1
          /\ (io_log'[1].encode # "Ok") =>
                (io_log'[1].write = "None" /\ result' = Err("close", io_log'[1].encode))
          /\ (io_log'[1].encode = "Ok" /\ io_log'[1].write # "Ok") =>
                result' = Err("close", io_log'[1].write)
          /\ (result'.status = "Err") =>
                /\ key_schedule' = key_schedule
                /\ delivered' = delivered
                /\ ~returned'
          /\ result'.status \in {"Ok", "Err"}]_vars

C11_Witness ==
    /\ result = Err("close", "IoError")
    /\ pc = "closed"
    /\ ~returned
    /\ io_log[1].write = "IoError"
    /\ key_schedule.write_counter = history.counter_at_call

\* C12 as stated: once an open has returned an error, no later write or read
\* on the connection returns success.
C12_FailedOpenIsFinal ==
    history.open_failed => ~(result.op \in {"write", "read"} /\ result.status = "Ok")

\* C12 amended: once an open has returned an error, every write and read made
\* while opened is false fails with handshake-missing without any I/O.
C12_FailedOpenBlocksWhileClosed ==
    (history.open_failed /\ ~opened /\ result.op \in {"write", "read"}) =>
        /\ result = Err(result.op, "MissingHandshake")
        /\ pc = "idle"
        /\ io_log = <<>>
        /\ rx_calls = 0

C12_Witness ==
    /\ history.open_failed
    /\ ~opened
    /\ result = Err("write", "MissingHandshake")
    /\ Len(buf) > 0

\* C13: once a read has returned connection-closed, every read that returns
\* afterwards returns connection-closed.
C13_ClosedIsTerminal ==
    (history.peer_closed /\ result.op = "read" /\ result.status # "None") =>
        result = Err("read", "ConnectionClosed")

WriteFailed ==
    result.op = "write" /\ result.status = "Err" /\ result.err # "MissingHandshake"

\* C14: a write that fails at chunk k returns the error of that encode or
\* transport write at once: chunks 1..k-1 were encoded and transmitted, chunk
\* k is the last one touched, and the write counter has advanced by k - 1.
C14_WriteStopsAtFailure ==
    WriteFailed =>
        LET k == Len(io_log) IN
        /\ k >= 1
        /\ pc = "idle"
        /\ \A i \in 1..(k - 1) : io_log[i].encode = "Ok" /\ io_log[i].write = "Ok"
        /\ \/ io_log[k].encode # "Ok" /\ io_log[k].write = "None" /\ result.err = io_log[k].encode
           \/ io_log[k].encode = "Ok" /\ io_log[k].write # "Ok" /\ result.err = io_log[k].write
        /\ key_schedule.write_counter = history.counter_at_call + (k - 1)
        /\ delivered = key_schedule.write_counter

C14_Witness ==
    /\ WriteFailed
    /\ Len(io_log) = 2
    /\ io_log[2].encode = "EncodeError"
    /\ key_schedule.write_counter = history.counter_at_call + 1

\* The caller's buffer with data placed after its first `at` bytes.
PlacedAfter(b, at, data) ==
    [i \in 1..Len(b) |-> IF i > at /\ i <= at + Len(data) THEN data[i - at] ELSE b[i]]

\* C15: each dequeued ApplicationData message is checked against the space
\* left in the caller's buffer: a longer one gives the capacity error, any
\* other is placed after the bytes already copied and remaining shrinks by
\* its length; a successful read returns between 1 and len(buf) bytes.
C15_SpaceLeftIsChecked ==
    [][/\ (Dequeues /\ dequeued'.type = "ApplicationData") =>
             IF Len(dequeued'.data) > remaining
             THEN result' = Err("read", "EncodeError") /\ buf' = buf
             ELSE /\ buf' = PlacedAfter(buf, Len(buf) - remaining, dequeued'.data)
                  /\ remaining' = remaining - Len(dequeued'.data)
                  /\ result'.status = "None"
       /\ (result'.op = "read" /\ result'.status = "Ok") =>
             (1 <= result'.val /\ result'.val <= Len(buf'))]_vars

NothingCopied == buf \in ReadBuffers

\* C16: read decodes a record only at the head of its loop, with the previous
\* queue drained, no error and no byte copied, and there it always does; once
\* a byte is copied it decodes nothing more and returns.
C16_DecodeOnlyWhileEmpty ==
    [][/\ (rx_calls' = rx_calls + 1) =>
             (pc = "read" /\ records = 0 /\ result.status = "None" /\ NothingCopied)
       /\ (pc = "read" /\ NothingCopied) => rx_calls' = rx_calls + 1
       /\ (pc = "read" /\ ~NothingCopied) =>
             (rx_calls' = rx_calls /\ pc' = "idle" /\ result'.status = "Ok")
       /\ (pc = "drain" /\ ~NothingCopied) => rx_calls' = rx_calls]_vars

C16_Witness ==
    /\ result = Ok("read", 1)
    /\ rx_calls = 2
    /\ earlier = "Mixed"
    /\ records = 0

\* C17: the application-data plaintext the transport has received from the
\* successful writes of a connection is the payloads in call order; here for
\* a connection whose only records so far are those of one successful write.
C17_WritesArriveInOrder ==
    (WriteSucceeded /\ delivered = Len(io_log) /\ history.counter_at_call = 0) =>
        Plaintext(io_log) = buf

\* C18: new does no I/O and yields opened = false with a fresh key schedule,
\* also over the resources a close returned, and the first write or read on
\* the new connection fails with handshake-missing.
C18_NewIsFresh ==
    /\ (~opened /\ key_schedule = NewKeySchedule /\ io_log = <<>> /\ rx_calls = 0)
    /\ [][/\ (pc = "closed" /\ pc' # "closed") =>
                /\ result' = Pending("new")
                /\ ~opened'
                /\ key_schedule' = NewKeySchedule
                /\ io_log' = <<>>
                /\ rx_calls' = rx_calls
                /\ delivered' = 0
          /\ (result.op = "new" /\ result'.op \in {"write", "read"}) =>
                (result' = Err(result'.op, "MissingHandshake") /\ io_log' = <<>>)]_vars

C18_Witness ==
    /\ result = Pending("new")
    /\ calls = 2
    /\ ~opened
    /\ key_schedule = NewKeySchedule
    /\ history = NewHistory

\* C19: every iteration of the loop of write consumes at least one byte, so a
\* write makes at most len(P) iterations; a write of the empty payload
\* returns 0 without encoding, transmitting or counting anything.
C19_WriteTerminates ==
    [][/\ (pc = "write") => Len(io_log) + remaining <= Len(buf)
       /\ (pc = "write" /\ pc' = "write") =>
             (remaining' < remaining /\ Len(io_log') = Len(io_log) + 1)
       /\ (pc = "write" /\ remaining = 0) => (pc' = "idle" /\ result'.status = "Ok")
       /\ (pc = "write" /\ Len(buf) = 0) =>
             /\ result' = Ok("write", 0)
             /\ io_log' = <<>>
             /\ key_schedule' = key_schedule
             /\ delivered' = delivered]_vars

C19_Witness ==
    /\ WriteSucceeded
    /\ Len(buf) = 2
    /\ Len(io_log) = 2
    /\ remaining = 0

\* C20: a read that succeeds has drained its last record without an error;
\* after data was copied, an alert, a ChangeCipherSpec or an ApplicationData
\* longer than the buffer still makes read return the error, with no count.
C20_ErrorAfterCopy ==
    [][/\ (Dequeues /\ ~NothingCopied
           /\ \/ dequeued'.type \in {"Alert", "ChangeCipherSpec"}
              \/ dequeued'.type = "ApplicationData" /\ Len(dequeued'.data) > Len(buf)) =>
             /\ result'.status = "Err"
             /\ result'.val = 0
             /\ pc' = "idle"
       /\ (result'.op = "read" /\ result'.status = "Ok") =>
             (records' = 0 /\ dequeued'.type \in {"ApplicationData", "NewSessionTicket"})]_vars

C20_Witness ==
    /\ result = Err("read", "InternalError")
    /\ dequeued = ServerChangeCipherSpec
    /\ ~NothingCopied

====
